---- MODULE Spec2Model ----
(***************************************************************************)
(* A model of falcon's clustering driver (src/falcon/falcon.py).           *)
(*                                                                         *)
(*   Spec        main(): output-collision check, work-directory cleaning,  *)
(*               charge list, per-charge graph cache, cross-bucket label   *)
(*               offsetting, export; runs follow one another on the same   *)
(*               file system and a run may be killed at any step.          *)
(*   SpecIngest  _prepare_spectra(): the bounded queue, the writer pool,   *)
(*               the lazily populated lock table and the charge datasets.  *)
(***************************************************************************)
EXTENDS Integers, Sequences, FiniteSets, TLC

\* ------------------------------------------------------------------ bounds
\* Rows of a bucket's metadata table.
MaxRows == 2
\* Largest label generate_clusters hands out within one bucket.
MaxLabel == 1

\* Accepted spectra in the input files.
MaxSpectra == 4
\* Writer threads (max_file_workers is at most this).
MaxWriters == 2

\* max_spectra_in_memory = 1_000_000 and the flush threshold 10_000 of the
\* source, scaled down so that a full queue and a full batch are reached.
max_spectra_in_memory == 3
FlushThreshold == 2

\* The precursor charges that occur among the spectra.
Charges == {1, 2}
Writers == 1..MaxWriters
Labels == -1..MaxLabel

Max(S) == CHOOSE x \in S : \A y \in S : y <= x
Min(S) == CHOOSE x \in S : \A y \in S : x <= y
Range(s) == {s[i] : i \in DOMAIN s}

VARIABLES
    \* --- configuration of the current run (config.parse)
    overwrite, export_representatives,
    \* --- the input: the charges that occur among the accepted spectra
    input_charges,
    \* --- file system
    csv_file, mgf_file,      \* <output_filename>.csv / .mgf exist
    charges_file,            \* spectra/charges.joblib: <<>> or <<set>>
    lance_exists,            \* charges whose spectra_charge_<c>.lance exists
    dist_file, meta_file,    \* nn/dist_<c>.npz, nn/metadata_<c>.parquet
    meta_n,                  \* rows stored in metadata_<c>.parquet
    \* --- main()'s position and locals
    main_pc, status, charges, todo, charge, metadata_len,
    current_label, clusters_all,
    \* --- history of the current run
    blocked,                 \* an output existed at start and no overwrite
    did,                     \* pipeline stages executed so far
    cache_seen, from_cache, rewritten,
    \* --- _prepare_spectra(): the reader side
    input_files,             \* the peak files, until they are read
    peak_files,              \* the peak files on disk, for a rerun to read
    results,                 \* what joblib.Parallel returned, per file
    yielded,                 \* spectra the reader yielded over all files
    low_quality_counter, n_spectra,
    file_spectra,            \* accepted spectra not yet put on the queue
    accepted,                \* every accepted spectrum of the input
    max_file_workers,        \* size of the writer pool
    spectra_queue,           \* queue.Queue(maxsize=max_spectra_in_memory)
    prep_pc, sentinels_left,
    prep_charges,            \* the set `charges` shared with the writers
    \* --- _write_spectra_lance(): one writer thread each
    w_pc, spec_to_write, w_keys, w_charge, w_ret, w_lock,
    w_sentinels,             \* sentinels this writer has taken
    \* --- shared by the writers
    lance_locks,             \* defaultdict(multiprocessing.Lock)
    held,                    \* the lock objects that are acquired
    ds_exists, ds_rows,      \* spectra_charge_<c>.lance and its rows
    \* --- history of the datasets
    creates, late_create,
    \* --- the export at the end of main()
    rm_work_dir,             \* the working directory is a temporary one
    work_dir,                \* the working directory exists
    write_csv_worker,        \* "unborn", "running" or "finished"
    write_mgf_worker,
    \* --- the earlier pipeline, src/falcon.py (its other locals have the
    \* --- names of main()'s above and are held in those variables)
    filenames,               \* the spectra the peak files yield, in order
    spectra,                 \* charge -> the list of its spectra
    identifiers,             \* the identifier of each matrix row
    row_ids                  \* charge -> the rows dist_<c>.npz was computed on

fsVars == <<csv_file, mgf_file, charges_file, lance_exists, dist_file,
            meta_file, meta_n>>
cfgVars == <<overwrite, export_representatives, input_charges>>
localVars == <<charges, todo, charge, metadata_len, current_label,
               clusters_all>>
histVars == <<blocked, did, cache_seen, from_cache, rewritten>>
exportVars == <<rm_work_dir, work_dir, write_csv_worker, write_mgf_worker>>
earlierVars == <<filenames, spectra, identifiers, row_ids>>
mainVars == <<cfgVars, fsVars, main_pc, status, localVars, histVars,
              exportVars, earlierVars>>

readVars == <<input_files, peak_files, results, yielded, low_quality_counter,
              n_spectra>>
prepVars == <<readVars, file_spectra, accepted, max_file_workers,
              spectra_queue, prep_pc, sentinels_left, prep_charges>>
writerVars == <<w_pc, spec_to_write, w_keys, w_charge, w_ret, w_lock,
               w_sentinels>>
sharedVars == <<lance_locks, held, ds_exists, ds_rows, creates, late_create>>
ingestVars == <<prepVars, writerVars, sharedVars>>

vars == <<mainVars, ingestVars>>

\* charges.joblib is <<>> when absent and <<S>> when it stores the set S.
NoFile == <<>>
NoCharge == Min(Charges) - 1

FreshLocals ==
    /\ charges = {}
    /\ todo = {}
    /\ charge = NoCharge
    /\ metadata_len = 0
    /\ current_label = 0
    /\ clusters_all = <<>>

FreshHistory ==
    /\ blocked = FALSE
    /\ did = {}
    /\ cache_seen = [c \in Charges |-> "unchecked"]
    /\ from_cache = [c \in Charges |-> "none"]
    /\ rewritten = [c \in Charges |-> {}]

\* A working directory was given and no export thread has been started.
ExportIdle ==
    /\ rm_work_dir = FALSE
    /\ work_dir = TRUE
    /\ write_csv_worker = "unborn"
    /\ write_mgf_worker = "unborn"

\* The earlier pipeline is not running and has left no distance matrix.
EarlierIdle ==
    /\ filenames = <<>>
    /\ spectra = [c \in Charges |-> <<>>]
    /\ identifiers = <<>>
    /\ row_ids = [c \in Charges |-> <<>>]

InitMain ==
    /\ overwrite = FALSE
    /\ export_representatives = FALSE
    /\ input_charges \in SUBSET Charges
    /\ csv_file \in BOOLEAN
    /\ mgf_file \in BOOLEAN
    /\ charges_file = NoFile
    /\ lance_exists = {}
    /\ dist_file = [c \in Charges |-> "absent"]
    /\ meta_file = [c \in Charges |-> "absent"]
    /\ meta_n = [c \in Charges |-> 0]
    /\ main_pc = "idle"
    /\ status = "none"
    /\ FreshLocals
    /\ FreshHistory
    /\ ExportIdle
    /\ EarlierIdle

\* The locals and the history of a run are gone once the process has ended.
EndRun(result) ==
    /\ main_pc' = "idle"
    /\ status' = result
    /\ charges' = {}
    /\ todo' = {}
    /\ charge' = NoCharge
    /\ metadata_len' = 0
    /\ current_label' = 0
    /\ clusters_all' = <<>>
    /\ blocked' = FALSE
    /\ did' = {}
    /\ cache_seen' = [c \in Charges |-> "unchecked"]
    /\ from_cache' = [c \in Charges |-> "none"]
    /\ rewritten' = [c \in Charges |-> {}]

\* main() is entered: config.parse(args), the working directories are made.
Start ==
    /\ main_pc = "idle"
    /\ \E ow \in BOOLEAN, er \in BOOLEAN :
        /\ overwrite' = ow
        /\ export_representatives' = er
        /\ blocked' = ((csv_file \/ mgf_file) /\ ~ow)
    /\ main_pc' = "check_outputs"
    /\ status' = "running"
    /\ UNCHANGED <<input_charges, fsVars, localVars, did, cache_seen,
                   from_cache, rewritten>>
    /\ UNCHANGED <<ingestVars, exportVars, earlierVars>>

\* A variant of ExitExists that forgets the representatives file.
ExitExistsCsvOnly == csv_file /\ ~overwrite

\* exit_exists after the two output checks.
ExitExists ==
    \/ (csv_file /\ ~overwrite)
    \/ (mgf_file /\ ~overwrite)

\* A variant of RemainsAfterCheck that removes the file in either case.
RemainsNever(exists) == FALSE

\* Whether an output file is there after its check: os.remove is called on
\* an existing file only if overwrite is set.
RemainsAfterCheck(exists) == exists /\ ~overwrite

\* Remove existing outputs under overwrite, else abort with status 1.
CheckOutputs ==
    /\ main_pc = "check_outputs"
    /\ csv_file' = RemainsAfterCheck(csv_file)
    /\ mgf_file' = RemainsAfterCheck(mgf_file)
    /\ IF ExitExists
         THEN /\ EndRun("1")
         ELSE /\ main_pc' = "clean"
              /\ UNCHANGED <<status, localVars, histVars>>
    /\ UNCHANGED <<cfgVars, charges_file, lance_exists, dist_file, meta_file,
                   meta_n>>
    /\ UNCHANGED <<ingestVars, exportVars, earlierVars>>

\* os.remove on a directory raises: a .lance dataset is a directory.
CleanRaises == overwrite /\ lance_exists # {}

\* With overwrite, every entry of spectra/ and nn/ is handed to os.remove.
\* os.listdir's order is arbitrary, so charges.joblib may or may not be gone
\* when a dataset directory makes os.remove raise; nn/ is not reached then.
CleanWorkDir ==
    /\ main_pc = "clean"
    /\ IF ~overwrite
         THEN /\ main_pc' = "charges"
              /\ UNCHANGED <<fsVars, status, localVars, histVars>>
         ELSE IF CleanRaises
           THEN /\ charges_file' \in {charges_file, NoFile}
                /\ EndRun("exception")
                /\ UNCHANGED <<csv_file, mgf_file, lance_exists, dist_file,
                               meta_file, meta_n>>
           ELSE /\ charges_file' = NoFile
                /\ dist_file' = [c \in Charges |-> "absent"]
                /\ meta_file' = [c \in Charges |-> "absent"]
                /\ main_pc' = "charges"
                /\ UNCHANGED <<csv_file, mgf_file, lance_exists, meta_n,
                               status, localVars, histVars>>
    /\ UNCHANGED cfgVars
    /\ UNCHANGED <<ingestVars, exportVars, earlierVars>>

\* A variant of ReuseCharges that never looks at the stored charge list.
ReuseChargesNever == FALSE

\* The stored charge list is reused unless overwrite is requested.
ReuseCharges == charges_file # NoFile /\ ~overwrite

\* charges = joblib.load(charge_path)
LoadCharges ==
    /\ main_pc = "charges"
    /\ ReuseCharges
    /\ charges' = charges_file[1]
    /\ todo' = charges_file[1]
    /\ main_pc' = "loop"
    /\ UNCHANGED <<cfgVars, fsVars, status, charge, metadata_len,
                   current_label, clusters_all, histVars>>
    /\ UNCHANGED <<ingestVars, exportVars, earlierVars>>

\* charges, _ = _prepare_spectra(...): the ingestion as main() sees it. Every
\* charge of the input gets a dataset directory (SpecIngest is the detail).
PrepareSpectra ==
    /\ main_pc = "charges"
    /\ ~ReuseCharges
    /\ charges' = input_charges
    /\ lance_exists' = lance_exists \cup input_charges
    /\ did' = did \cup {"ingest"}
    /\ main_pc' = "dump"
    /\ UNCHANGED <<cfgVars, csv_file, mgf_file, charges_file, dist_file,
                   meta_file, meta_n, status, todo, charge, metadata_len,
                   current_label, clusters_all, blocked, cache_seen,
                   from_cache, rewritten>>
    /\ UNCHANGED <<ingestVars, exportVars, earlierVars>>

\* _prepare_spectra raises when a peak file cannot be read, before any
\* spectrum is written (ReadFiles of SpecIngest); main() has no handler.
PrepareSpectraRaises ==
    /\ main_pc = "charges"
    /\ ~ReuseCharges
    /\ EndRun("exception")
    /\ UNCHANGED <<cfgVars, fsVars>>
    /\ UNCHANGED <<ingestVars, exportVars, earlierVars>>

\* joblib.dump(charges, charge_path)
DumpCharges ==
    /\ main_pc = "dump"
    /\ charges_file' = <<charges>>
    /\ todo' = charges
    /\ main_pc' = "loop"
    /\ UNCHANGED <<cfgVars, csv_file, mgf_file, lance_exists, dist_file,
                   meta_file, meta_n, status, charges, charge, metadata_len,
                   current_label, clusters_all, histVars>>
    /\ UNCHANGED <<ingestVars, exportVars, earlierVars>>

\* Both cache files of charge c are present (os.path.isfile of each).
BothCached(c) == dist_file[c] # "absent" /\ meta_file[c] # "absent"

\* A variant of UseCache that looks at the graph file alone.
UseCacheDistOnly(c) == dist_file[c] # "absent"

\* The branch main() takes for charge c: TRUE loads, FALSE recomputes.
UseCache(c) ==
    ~(dist_file[c] = "absent" \/ meta_file[c] = "absent")

\* for charge in charges: open the dataset and test the cache.
NextCharge ==
    /\ main_pc = "loop"
    /\ todo # {}
    /\ LET c == Min(todo) IN
        /\ charge' = c
        /\ cache_seen' = [cache_seen EXCEPT
                            ![c] = IF BothCached(c) THEN "both" ELSE "missing"]
        /\ main_pc' = IF UseCache(c) THEN "load" ELSE "compute"
    /\ UNCHANGED <<cfgVars, fsVars, status, charges, todo, metadata_len,
                   current_label, clusters_all, blocked, did, from_cache,
                   rewritten>>
    /\ UNCHANGED <<ingestVars, exportVars, earlierVars>>

\* cluster.compute_pairwise_distances: the graph and a metadata table.
ComputeDistances ==
    /\ main_pc = "compute"
    /\ \E n \in 0..MaxRows : metadata_len' = n
    /\ from_cache' = [from_cache EXCEPT ![charge] = "computed"]
    /\ did' = did \cup {"graph"}
    /\ main_pc' = "save_npz"
    /\ UNCHANGED <<cfgVars, fsVars, status, charges, todo, charge,
                   current_label, clusters_all, blocked, cache_seen,
                   rewritten>>
    /\ UNCHANGED <<ingestVars, exportVars, earlierVars>>

\* ss.save_npz(dist_filename, ...) opens dist_<c>.npz itself for writing.
SaveNpzOpen ==
    /\ main_pc = "save_npz"
    /\ dist_file' = [dist_file EXCEPT ![charge] = "partial"]
    /\ main_pc' = "save_npz_write"
    /\ UNCHANGED <<cfgVars, csv_file, mgf_file, charges_file, lance_exists,
                   meta_file, meta_n, status, localVars, histVars>>
    /\ UNCHANGED <<ingestVars, exportVars, earlierVars>>

SaveNpzClose ==
    /\ main_pc = "save_npz_write"
    /\ dist_file' = [dist_file EXCEPT ![charge] = "complete"]
    /\ rewritten' = [rewritten EXCEPT ![charge] = @ \cup {"dist"}]
    /\ main_pc' = "to_parquet"
    /\ UNCHANGED <<cfgVars, csv_file, mgf_file, charges_file, lance_exists,
                   meta_file, meta_n, status, localVars, blocked, did,
                   cache_seen, from_cache>>
    /\ UNCHANGED <<ingestVars, exportVars, earlierVars>>

\* metadata.to_parquet(metadata_filename) opens metadata_<c>.parquet itself.
ToParquetOpen ==
    /\ main_pc = "to_parquet"
    /\ meta_file' = [meta_file EXCEPT ![charge] = "partial"]
    /\ main_pc' = "to_parquet_write"
    /\ UNCHANGED <<cfgVars, csv_file, mgf_file, charges_file, lance_exists,
                   dist_file, meta_n, status, localVars, histVars>>
    /\ UNCHANGED <<ingestVars, exportVars, earlierVars>>

ToParquetClose ==
    /\ main_pc = "to_parquet_write"
    /\ meta_file' = [meta_file EXCEPT ![charge] = "complete"]
    /\ meta_n' = [meta_n EXCEPT ![charge] = metadata_len]
    /\ rewritten' = [rewritten EXCEPT ![charge] = @ \cup {"meta"}]
    /\ main_pc' = "cluster"
    /\ UNCHANGED <<cfgVars, csv_file, mgf_file, charges_file, lance_exists,
                   dist_file, status, localVars, blocked, did, cache_seen,
                   from_cache>>
    /\ UNCHANGED <<ingestVars, exportVars, earlierVars>>

\* ss.load_npz / pd.read_parquet: a truncated file makes the reader raise.
LoadCache ==
    /\ main_pc = "load"
    /\ IF dist_file[charge] = "complete" /\ meta_file[charge] = "complete"
         THEN /\ metadata_len' = meta_n[charge]
              /\ from_cache' = [from_cache EXCEPT ![charge] = "cache"]
              /\ main_pc' = "cluster"
              /\ UNCHANGED <<status, charges, todo, charge, current_label,
                             clusters_all, blocked, did, cache_seen,
                             rewritten>>
         ELSE EndRun("exception")
    /\ UNCHANGED <<cfgVars, fsVars>>
    /\ UNCHANGED <<ingestVars, exportVars, earlierVars>>

\* clusters += current_label
Offset(raw, label) == [i \in DOMAIN raw |-> raw[i] + label]

\* current_label = np.amax(clusters) + 1
NextLabel(clusters) == Max(Range(clusters)) + 1

\* len(metadata) == 0: continue. Otherwise generate_clusters labels the rows
\* (any labelling over -1..MaxLabel), the labels are offset, the running
\* label advances, and the table of the bucket joins clusters_all.
GenerateClusters ==
    /\ main_pc = "cluster"
    /\ IF metadata_len = 0
         THEN UNCHANGED <<current_label, clusters_all, did>>
         ELSE \E raw \in [1..metadata_len -> Labels] :
                LET clusters == Offset(raw, current_label) IN
                /\ current_label' = NextLabel(clusters)
                /\ clusters_all' = Append(clusters_all,
                                     [charge |-> charge, raw |-> raw,
                                      cluster |-> clusters])
                /\ did' = did \cup {"cluster"}
    /\ todo' = todo \ {charge}
    /\ main_pc' = "loop"
    /\ UNCHANGED <<cfgVars, fsVars, status, charges, charge, metadata_len,
                   blocked, cache_seen, from_cache, rewritten>>
    /\ UNCHANGED <<ingestVars, exportVars, earlierVars>>

\* pd.concat(clusters_all, ...): raises on an empty list.
Concat ==
    /\ main_pc = "loop"
    /\ todo = {}
    /\ IF clusters_all = <<>>
         THEN EndRun("exception")
         ELSE /\ main_pc' = "write_csv"
              /\ UNCHANGED <<status, localVars, histVars>>
    /\ UNCHANGED <<cfgVars, fsVars>>
    /\ UNCHANGED <<ingestVars, exportVars, earlierVars>>

\* _write_cluster_info: the cluster assignments go to <output>.csv.
WriteCsv ==
    /\ main_pc = "write_csv"
    /\ csv_file' = TRUE
    /\ did' = did \cup {"export"}
    /\ main_pc' = IF export_representatives THEN "write_mgf" ELSE "return"
    /\ UNCHANGED <<cfgVars, mgf_file, charges_file, lance_exists, dist_file,
                   meta_file, meta_n, status, localVars, blocked, cache_seen,
                   from_cache, rewritten>>
    /\ UNCHANGED <<ingestVars, exportVars, earlierVars>>

\* ms_io.write_spectra: the representatives go to <output>.mgf.
WriteMgf ==
    /\ main_pc = "write_mgf"
    /\ mgf_file' = TRUE
    /\ main_pc' = "return"
    /\ UNCHANGED <<cfgVars, csv_file, charges_file, lance_exists, dist_file,
                   meta_file, meta_n, status, localVars, histVars>>
    /\ UNCHANGED <<ingestVars, exportVars, earlierVars>>

\* return 0
Return0 ==
    /\ main_pc = "return"
    /\ EndRun("0")
    /\ UNCHANGED <<cfgVars, fsVars>>
    /\ UNCHANGED <<ingestVars, exportVars, earlierVars>>

\* The process is killed between two steps; the files stay as they are.
Abort ==
    /\ status = "running"
    /\ EndRun("killed")
    /\ UNCHANGED <<cfgVars, fsVars>>
    /\ UNCHANGED <<ingestVars, exportVars, earlierVars>>

\* ------------------------------------------------------- _prepare_spectra
\* The sentinel None that ends a writer.
None == [id |-> 0, precursor_charge |-> 0]
NoLock == <<>>

\* A spectrum process_spectrum rejects (it returns None for it).
LowQuality == NoCharge

\* multiprocessing.cpu_count()
cpu_count == MaxWriters

\* The ways to cut n spectra, in order, into k files.
Splits(n, k) ==
    {f \in [1..n -> 1..k] : \A i \in 1..n : \A j \in 1..n :
                                i <= j => f[i] <= f[j]}

\* The spectra of file j, given the file each of `items` belongs to.
FileRaw(items, f, j) ==
    LET idx == {i \in DOMAIN items : f[i] = j} IN
    IF idx = {} THEN <<>> ELSE SubSeq(items, Min(idx), Max(idx))

\* The input: up to cpu_count peak files holding up to MaxSpectra spectra,
\* each spectrum of some charge or of low quality; at most one of the files,
\* an empty one here, cannot be read.
Inputs ==
    UNION {UNION {UNION {{[j \in 1..k |->
                            [readable |-> j # bad,
                             raw |-> FileRaw(items, f, j)]] :
                    bad \in {b \in 0..k : \A i \in 1..n : f[i] # b}} :
                f \in Splits(n, k)} :
            items \in [1..n -> Charges \cup {LowQuality}]} :
        <<n, k>> \in (0..MaxSpectra) \X (1..cpu_count)}

IngestIdle ==
    /\ input_files = <<>>
    /\ peak_files = <<>>
    /\ results = <<>>
    /\ yielded = 0
    /\ low_quality_counter = 0
    /\ n_spectra = 0
    /\ file_spectra = <<>>
    /\ accepted = {}
    /\ max_file_workers = 1
    /\ spectra_queue = <<>>
    /\ prep_pc = "idle"
    /\ sentinels_left = 0
    /\ prep_charges = {}
    /\ w_pc = [w \in Writers |-> "unborn"]
    /\ spec_to_write = [w \in Writers |-> [c \in Charges |-> <<>>]]
    /\ w_keys = [w \in Writers |-> <<>>]
    /\ w_charge = [w \in Writers |-> NoCharge]
    /\ w_ret = [w \in Writers |-> "get"]
    /\ w_lock = [w \in Writers |-> NoLock]
    /\ w_sentinels = [w \in Writers |-> 0]
    /\ lance_locks = [c \in Charges |-> NoLock]
    /\ held = {}
    /\ ds_exists = {}
    /\ ds_rows = [c \in Charges |-> <<>>]
    /\ creates = [c \in Charges |-> 0]
    /\ late_create = [c \in Charges |-> FALSE]

\* _prepare_spectra is entered with the spectra the readers returned.
InitIngest ==
    /\ input_files \in Inputs
    /\ results = <<>>
    /\ yielded = 0
    /\ low_quality_counter = 0
    /\ n_spectra = 0
    /\ file_spectra = <<>>
    /\ accepted = {}
    /\ max_file_workers = Min({Len(input_files), cpu_count})
    /\ spectra_queue = <<>>
    /\ prep_pc = "read"
    /\ sentinels_left = 0
    /\ prep_charges = {}
    /\ w_pc = [w \in Writers |-> "unborn"]
    /\ spec_to_write = [w \in Writers |-> [c \in Charges |-> <<>>]]
    /\ w_keys = [w \in Writers |-> <<>>]
    /\ w_charge = [w \in Writers |-> NoCharge]
    /\ w_ret = [w \in Writers |-> "get"]
    /\ w_lock = [w \in Writers |-> NoLock]
    /\ w_sentinels = [w \in Writers |-> 0]
    /\ lance_locks = [c \in Charges |-> NoLock]
    /\ held = {}
    /\ ds_exists = {}
    /\ ds_rows = [c \in Charges |-> <<>>]
    /\ creates = [c \in Charges |-> 0]
    /\ late_create = [c \in Charges |-> FALSE]

\* _read_spectra(file): the accepted spectra of a file, numbered from
\* first + 1, and the number of spectra process_spectrum rejected.
ReadSpectra(raw, first) ==
    LET kept == SelectSeq(raw, LAMBDA x : x # LowQuality) IN
    [spectra |-> [i \in 1..Len(kept) |->
                    [id |-> first + i, precursor_charge |-> kept[i]]],
     lqc |-> Len(raw) - Len(kept)]

RECURSIVE ReadAll(_, _)
\* The list joblib.Parallel returns: one _read_spectra result per file.
ReadAll(files, first) ==
    IF files = <<>> THEN <<>>
    ELSE LET r == ReadSpectra(Head(files).raw, first) IN
         <<r>> \o ReadAll(Tail(files), first + Len(r.spectra))

RECURSIVE SumLen(_)
SumLen(seqs) ==
    IF seqs = <<>> THEN 0 ELSE Len(Head(seqs)) + SumLen(Tail(seqs))

\* joblib.Parallel(...)(delayed(_read_spectra)(file, ...) for file in ...):
\* every file is read before the loop body runs; _read_spectra has no
\* handler, so a file that cannot be read raises out of _prepare_spectra.
ReadFiles ==
    /\ prep_pc = "read"
    /\ IF \E j \in DOMAIN input_files : ~input_files[j].readable
         THEN /\ prep_pc' = "raised"
              /\ UNCHANGED <<results, accepted>>
         ELSE /\ prep_pc' = "put"
              /\ results' = ReadAll(input_files, 0)
              /\ accepted' = UNION {Range(ReadAll(input_files, 0)[j].spectra) :
                                        j \in DOMAIN input_files}
    /\ yielded' = SumLen([j \in DOMAIN input_files |->
                            IF input_files[j].readable
                              THEN input_files[j].raw ELSE <<>>])
    /\ input_files' = <<>>
    /\ UNCHANGED peak_files
    /\ UNCHANGED <<low_quality_counter, n_spectra, file_spectra,
                   max_file_workers, spectra_queue, sentinels_left,
                   prep_charges, writerVars, sharedVars, mainVars>>

\* for file_spectra, lqc in ...: low_quality_counter += lqc
NextFile ==
    /\ prep_pc = "put"
    /\ file_spectra = <<>>
    /\ results # <<>>
    /\ low_quality_counter' = low_quality_counter + Head(results).lqc
    /\ file_spectra' = Head(results).spectra
    /\ results' = Tail(results)
    /\ UNCHANGED <<input_files, peak_files, yielded, n_spectra, accepted,
                   max_file_workers, spectra_queue, prep_pc, sentinels_left,
                   prep_charges, writerVars, sharedVars, mainVars>>

\* Queue.put returns only when the queue holds fewer than maxsize entries.
QueueHasRoomAlways == TRUE

QueueHasRoom == Len(spectra_queue) < max_spectra_in_memory

\* for spec in file_spectra: spectra_queue.put(spec)
PutSpectrum ==
    /\ prep_pc = "put"
    /\ file_spectra # <<>>
    /\ QueueHasRoom
    /\ spectra_queue' = Append(spectra_queue, Head(file_spectra))
    /\ file_spectra' = Tail(file_spectra)
    /\ UNCHANGED <<readVars, accepted, max_file_workers, prep_pc,
                   sentinels_left, prep_charges, writerVars, sharedVars,
                   mainVars>>

\* A variant of SentinelCount that is one sentinel short.
SentinelCountShort == max_file_workers - 1

\* for _ in range(max_file_workers): one sentinel per writer.
SentinelCount == max_file_workers

\* ThreadPool(max_file_workers, _write_spectra_lance, ...): the writers start
\* once every spectrum is on the queue.
StartWriters ==
    /\ prep_pc = "put"
    /\ file_spectra = <<>>
    /\ results = <<>>
    /\ w_pc' = [w \in Writers |->
                    IF w <= max_file_workers THEN "get" ELSE "unborn"]
    /\ sentinels_left' = SentinelCount
    /\ prep_pc' = "sentinels"
    /\ UNCHANGED <<readVars, file_spectra, accepted, max_file_workers, spectra_queue,
                   prep_charges, spec_to_write, w_keys, w_charge, w_ret,
                   w_lock, w_sentinels, sharedVars, mainVars>>

\* for _ in range(max_file_workers): spectra_queue.put(None)
PutSentinel ==
    /\ prep_pc = "sentinels"
    /\ sentinels_left > 0
    /\ QueueHasRoom
    /\ spectra_queue' = Append(spectra_queue, None)
    /\ sentinels_left' = sentinels_left - 1
    /\ UNCHANGED <<readVars, file_spectra, accepted, max_file_workers, prep_pc,
                   prep_charges, writerVars, sharedVars, mainVars>>

\* lance_writers.close(); lance_writers.join()
JoinWriters ==
    /\ prep_pc = "sentinels"
    /\ sentinels_left = 0
    /\ \A w \in Writers : w_pc[w] \in {"unborn", "exited"}
    /\ prep_pc' = "count"
    /\ UNCHANGED <<readVars, file_spectra, accepted, max_file_workers,
                   spectra_queue, sentinels_left, prep_charges, writerVars,
                   sharedVars, mainVars>>

RECURSIVE CountRows(_)
\* n_spectra += dataset.count_rows() over the datasets that open.
CountRows(cs) ==
    IF cs = {} THEN 0
    ELSE LET c == Min(cs) IN
         (IF c \in ds_exists THEN Len(ds_rows[c]) ELSE 0) + CountRows(cs \ {c})

\* The datasets of the charges seen are opened and their rows counted; a
\* charge whose dataset does not open is removed from `charges`.
CountSpectra ==
    /\ prep_pc = "count"
    /\ n_spectra' = CountRows(prep_charges)
    /\ prep_charges' = prep_charges \cap ds_exists
    /\ prep_pc' = "done"
    /\ UNCHANGED <<input_files, peak_files, results, yielded,
                   low_quality_counter,
                   file_spectra, accepted, max_file_workers, spectra_queue,
                   sentinels_left, writerVars, sharedVars, mainVars>>

\* ---------------------------------------------------- _write_spectra_lance
\* The staging key of a spectrum: charge = spec["precursor_charge"].
BatchKey(spec) == spec.precursor_charge

\* A variant of BatchFull that flushes one spectrum late.
BatchFullLate(batch) == Len(batch) > FlushThreshold

\* if len(spec_to_write[charge]) >= 10_000
BatchFull(batch) == Len(batch) >= FlushThreshold

\* spec = spectra_queue.get(); a sentinel starts the final flush, a spectrum
\* joins the batch of its charge, which is flushed at the threshold.
Get(w) ==
    /\ w_pc[w] = "get"
    /\ spectra_queue # <<>>
    /\ LET spec == Head(spectra_queue) IN
        /\ spectra_queue' = Tail(spectra_queue)
        /\ IF spec = None
             THEN /\ w_pc' = [w_pc EXCEPT ![w] = "drain"]
                  /\ w_sentinels' = [w_sentinels EXCEPT ![w] = @ + 1]
                  /\ UNCHANGED <<spec_to_write, w_keys, w_charge, w_ret,
                                 prep_charges>>
             ELSE LET c == BatchKey(spec)
                      batch == Append(spec_to_write[w][c], spec) IN
                  /\ spec_to_write' = [spec_to_write EXCEPT ![w][c] = batch]
                  /\ w_keys' = [w_keys EXCEPT ![w] =
                                  IF c \in Range(@) THEN @ ELSE Append(@, c)]
                  /\ prep_charges' = prep_charges \cup {c}
                  /\ UNCHANGED w_sentinels
                  /\ IF BatchFull(batch)
                       THEN /\ w_charge' = [w_charge EXCEPT ![w] = c]
                            /\ w_ret' = [w_ret EXCEPT ![w] = "get"]
                            /\ w_pc' = [w_pc EXCEPT ![w] = "fetch_lock"]
                       ELSE UNCHANGED <<w_charge, w_ret, w_pc>>
    /\ UNCHANGED <<readVars, file_spectra, accepted, max_file_workers,
                   prep_pc, sentinels_left, w_lock, sharedVars, mainVars>>

\* The keys of spec_to_write, in insertion order, whose batch is not empty.
Pending(w) ==
    SelectSeq(w_keys[w], LAMBDA c : spec_to_write[w][c] # <<>>)

\* After the sentinel: for charge in spec_to_write.keys(), flush what is
\* left, then return.
Drain(w) ==
    /\ w_pc[w] = "drain"
    /\ IF Pending(w) = <<>>
         THEN /\ w_pc' = [w_pc EXCEPT ![w] = "exited"]
              /\ UNCHANGED <<w_charge, w_ret>>
         ELSE /\ w_charge' = [w_charge EXCEPT ![w] = Head(Pending(w))]
              /\ w_ret' = [w_ret EXCEPT ![w] = "drain"]
              /\ w_pc' = [w_pc EXCEPT ![w] = "fetch_lock"]
    /\ UNCHANGED <<prepVars, spec_to_write, w_keys, w_lock, sharedVars,
                   mainVars>>
    /\ UNCHANGED w_sentinels

\* lance_locks[charge] with the key present: the stored lock.
FetchLock(w) ==
    /\ w_pc[w] = "fetch_lock"
    /\ lance_locks[w_charge[w]] # NoLock
    /\ w_lock' = [w_lock EXCEPT ![w] = lance_locks[w_charge[w]]]
    /\ w_pc' = [w_pc EXCEPT ![w] = "acquire"]
    /\ UNCHANGED <<prepVars, spec_to_write, w_keys, w_charge, w_ret,
                   sharedVars, mainVars>>
    /\ UNCHANGED w_sentinels

\* lance_locks[charge] with the key missing: defaultdict.__missing__ calls
\* multiprocessing.Lock(), Python code during which other threads run.
MissLock(w) ==
    /\ w_pc[w] = "fetch_lock"
    /\ lance_locks[w_charge[w]] = NoLock
    /\ w_pc' = [w_pc EXCEPT ![w] = "make_lock"]
    /\ UNCHANGED <<prepVars, spec_to_write, w_keys, w_charge, w_ret, w_lock,
                   sharedVars, mainVars>>
    /\ UNCHANGED w_sentinels

\* __missing__ stores the lock it made under the key and returns it.
StoreLock(w) ==
    /\ w_pc[w] = "make_lock"
    /\ LET new == <<w_charge[w], w>> IN
        /\ lance_locks' = [lance_locks EXCEPT ![w_charge[w]] = new]
        /\ w_lock' = [w_lock EXCEPT ![w] = new]
    /\ w_pc' = [w_pc EXCEPT ![w] = "acquire"]
    /\ UNCHANGED <<prepVars, spec_to_write, w_keys, w_charge, w_ret, held,
                   ds_exists, ds_rows, creates, late_create, mainVars>>
    /\ UNCHANGED w_sentinels

\* -------------------------------------------------------- _write_to_dataset
\* with lock: the lock object this call received is acquired.
Acquire(w) ==
    /\ w_pc[w] = "acquire"
    /\ w_lock[w] \notin held
    /\ held' = held \cup {w_lock[w]}
    /\ w_pc' = [w_pc EXCEPT ![w] = "exists"]
    /\ UNCHANGED <<prepVars, spec_to_write, w_keys, w_charge, w_ret, w_lock,
                   lance_locks, ds_exists, ds_rows, creates, late_create,
                   mainVars>>
    /\ UNCHANGED w_sentinels

\* if not os.path.exists(path)
CheckExists(w) ==
    /\ w_pc[w] = "exists"
    /\ w_pc' = [w_pc EXCEPT ![w] =
                  IF w_charge[w] \in ds_exists THEN "append" ELSE "create"]
    /\ UNCHANGED <<prepVars, spec_to_write, w_keys, w_charge, w_ret, w_lock,
                   sharedVars, mainVars>>
    /\ UNCHANGED w_sentinels

\* _create_lance_dataset: write_dataset(empty table, mode="overwrite").
CreateDataset(w) ==
    /\ w_pc[w] = "create"
    /\ LET c == w_charge[w] IN
        /\ ds_exists' = ds_exists \cup {c}
        /\ ds_rows' = [ds_rows EXCEPT ![c] = <<>>]
        /\ creates' = [creates EXCEPT ![c] = @ + 1]
        /\ late_create' = [late_create EXCEPT ![c] = @ \/ ds_rows[c] # <<>>]
    /\ w_pc' = [w_pc EXCEPT ![w] = "append"]
    /\ UNCHANGED <<prepVars, spec_to_write, w_keys, w_charge, w_ret, w_lock,
                   lance_locks, held, mainVars>>
    /\ UNCHANGED w_sentinels

\* The dataset a batch staged under charge c is appended to.
TargetFirst(c) == Min(Charges)

Target(c) == c

\* write_dataset(new_rows, path, mode="append"), the lock is released, and
\* back in the writer the batch is cleared.
AppendRows(w) ==
    /\ w_pc[w] = "append"
    /\ LET c == w_charge[w] IN
        /\ ds_rows' = [ds_rows EXCEPT
                         ![Target(c)] = @ \o spec_to_write[w][c]]
        /\ spec_to_write' = [spec_to_write EXCEPT ![w][c] = <<>>]
    /\ held' = held \ {w_lock[w]}
    /\ w_lock' = [w_lock EXCEPT ![w] = NoLock]
    /\ w_pc' = [w_pc EXCEPT ![w] = w_ret[w]]
    /\ UNCHANGED <<prepVars, w_keys, w_charge, w_ret, lance_locks,
                   ds_exists, creates, late_create, mainVars>>
    /\ UNCHANGED w_sentinels

\* The thread of _prepare_spectra itself.
Producer ==
    \/ ReadFiles
    \/ NextFile
    \/ PutSpectrum
    \/ StartWriters
    \/ PutSentinel
    \/ JoinWriters
    \/ CountSpectra

\* Pool thread w running _write_spectra_lance.
Writer(w) ==
    \/ Get(w)
    \/ Drain(w)
    \/ FetchLock(w)
    \/ MissLock(w)
    \/ StoreLock(w)
    \/ Acquire(w)
    \/ CheckExists(w)
    \/ CreateDataset(w)
    \/ AppendRows(w)

NextIngest ==
    \/ Producer
    \/ \E w \in Writers : Writer(w)

NextMain ==
    \/ Start
    \/ CheckOutputs
    \/ CleanWorkDir
    \/ LoadCharges
    \/ PrepareSpectra
    \/ PrepareSpectraRaises
    \/ DumpCharges
    \/ NextCharge
    \/ ComputeDistances
    \/ SaveNpzOpen
    \/ SaveNpzClose
    \/ ToParquetOpen
    \/ ToParquetClose
    \/ LoadCache
    \/ GenerateClusters
    \/ Concat
    \/ WriteCsv
    \/ WriteMgf
    \/ Return0
    \/ Abort

\* main() with the ingestion as one step.
Init == InitMain /\ IngestIdle

Next == NextMain

Spec == Init /\ [][Next]_vars

\* _prepare_spectra() on a fresh working directory.
MainIdle ==
    /\ InitMain
    /\ input_charges = {}
    /\ ~csv_file
    /\ ~mgf_file

InitIngestion == MainIdle /\ InitIngest /\ peak_files = <<>>

SpecIngest == InitIngestion /\ [][NextIngest]_vars

\* The inputs whose every file is readable and whose every spectrum is
\* accepted: only accepted spectra ever reach the queue and the writers.
AcceptedInputs ==
    {fs \in Inputs :
        \A j \in DOMAIN fs :
            /\ fs[j].readable
            /\ \A i \in DOMAIN fs[j].raw : fs[j].raw[i] # LowQuality}

InitWriting == InitIngestion /\ input_files \in AcceptedInputs

\* The interpreter keeps scheduling every thread that can take a step.
SpecIngestFair ==
    /\ InitWriting
    /\ [][NextIngest]_vars
    /\ WF_vars(Producer)
    /\ \A w \in Writers : WF_vars(Writer(w))

\* The process is killed while _prepare_spectra runs, after a batch has been
\* appended and before joblib.dump(charges, charge_path); main() is then run
\* again without overwrite. Nothing in memory survives; the datasets do, for
\* spectra/ is cleaned only under overwrite, and with no stored charge list
\* main() enters _prepare_spectra again on the same peak files.
RerunAfterKill ==
    /\ status = "none"
    /\ prep_pc \in {"put", "sentinels", "count", "done"}
    /\ \E c \in Charges : ds_rows[c] # <<>>
    /\ status' = "killed"
    /\ input_files' = peak_files
    /\ results' = <<>>
    /\ yielded' = 0
    /\ low_quality_counter' = 0
    /\ n_spectra' = 0
    /\ file_spectra' = <<>>
    /\ accepted' = {}
    /\ spectra_queue' = <<>>
    /\ prep_pc' = "read"
    /\ sentinels_left' = 0
    /\ prep_charges' = {}
    /\ w_pc' = [w \in Writers |-> "unborn"]
    /\ spec_to_write' = [w \in Writers |-> [c \in Charges |-> <<>>]]
    /\ w_keys' = [w \in Writers |-> <<>>]
    /\ w_charge' = [w \in Writers |-> NoCharge]
    /\ w_ret' = [w \in Writers |-> "get"]
    /\ w_lock' = [w \in Writers |-> NoLock]
    /\ w_sentinels' = [w \in Writers |-> 0]
    /\ lance_locks' = [c \in Charges |-> NoLock]
    /\ held' = {}
    /\ creates' = [c \in Charges |-> 0]
    /\ late_create' = [c \in Charges |-> FALSE]
    /\ UNCHANGED <<peak_files, max_file_workers, ds_exists, ds_rows>>
    /\ UNCHANGED <<cfgVars, fsVars, main_pc, localVars, histVars, exportVars,
                   earlierVars>>

InitRerun ==
    /\ MainIdle
    /\ InitIngest
    /\ input_files \in AcceptedInputs
    /\ peak_files = input_files

NextRerun ==
    \/ NextIngest
    \/ RerunAfterKill

SpecRerun == InitRerun /\ [][NextRerun]_vars

\* ------------------------------------------------- the export of main()
RECURSIVE OneRowTables(_, _)
\* clusters_all after a loop in which every bucket of cs had one row, which
\* generate_clusters put into cluster 0 of its bucket.
OneRowTables(cs, label) ==
    IF cs = {} THEN <<>>
    ELSE LET c == Min(cs) IN
         <<[charge |-> c, raw |-> <<0>>, cluster |-> <<label>>]>>
            \o OneRowTables(cs \ {c}, label + 1)

\* main() has left the per-charge loop and concatenated clusters_all: the
\* outputs are absent, the working directory, given or temporary, holds the
\* charge list, the datasets and the caches of the charges clustered.
InitExport ==
    /\ overwrite = FALSE
    /\ export_representatives \in BOOLEAN
    /\ input_charges \in (SUBSET Charges) \ {{}}
    /\ csv_file = FALSE
    /\ mgf_file = FALSE
    /\ charges_file = <<input_charges>>
    /\ lance_exists = input_charges
    /\ dist_file = [c \in Charges |->
                        IF c \in input_charges THEN "complete" ELSE "absent"]
    /\ meta_file = dist_file
    /\ meta_n = [c \in Charges |-> IF c \in input_charges THEN 1 ELSE 0]
    /\ main_pc = "write_csv"
    /\ status = "running"
    /\ charges = input_charges
    /\ todo = {}
    /\ charge = Max(input_charges)
    /\ metadata_len = 1
    /\ current_label = Cardinality(input_charges)
    /\ clusters_all = OneRowTables(input_charges, 0)
    /\ blocked = FALSE
    /\ did = {"ingest", "graph", "cluster"}
    /\ cache_seen = [c \in Charges |->
                        IF c \in input_charges THEN "missing" ELSE "unchecked"]
    /\ from_cache = [c \in Charges |->
                        IF c \in input_charges THEN "computed" ELSE "none"]
    /\ rewritten = [c \in Charges |->
                        IF c \in input_charges THEN {"dist", "meta"} ELSE {}]
    /\ rm_work_dir \in BOOLEAN
    /\ work_dir = TRUE
    /\ write_csv_worker = "unborn"
    /\ write_mgf_worker = "unborn"
    /\ EarlierIdle
    /\ IngestIdle

\* write_csv_worker = threading.Thread(...); write_csv_worker.start()
StartCsvWorker ==
    /\ main_pc = "write_csv"
    /\ write_csv_worker' = "running"
    /\ did' = did \cup {"export"}
    /\ main_pc' = IF export_representatives THEN "start_mgf" ELSE "join_csv"
    /\ UNCHANGED <<cfgVars, fsVars, status, localVars, blocked, cache_seen,
                   from_cache, rewritten, rm_work_dir, work_dir,
                   write_mgf_worker, ingestVars, earlierVars>>

\* The thread runs _write_cluster_info: <output>.csv is written.
CsvWorkerWrites ==
    /\ status = "running"
    /\ write_csv_worker = "running"
    /\ csv_file' = TRUE
    /\ write_csv_worker' = "finished"
    /\ UNCHANGED <<cfgVars, mgf_file, charges_file, lance_exists, dist_file,
                   meta_file, meta_n, main_pc, status, localVars, histVars,
                   rm_work_dir, work_dir, write_mgf_worker, ingestVars,
                   earlierVars>>

\* write_mgf_worker = threading.Thread(...); write_mgf_worker.start()
StartMgfWorker ==
    /\ main_pc = "start_mgf"
    /\ write_mgf_worker' = "running"
    /\ main_pc' = "join_mgf"
    /\ UNCHANGED <<cfgVars, fsVars, status, localVars, histVars, rm_work_dir,
                   work_dir, write_csv_worker, ingestVars, earlierVars>>

\* The thread runs ms_io.write_spectra: <output>.mgf is written.
MgfWorkerWrites ==
    /\ status = "running"
    /\ write_mgf_worker = "running"
    /\ mgf_file' = TRUE
    /\ write_mgf_worker' = "finished"
    /\ UNCHANGED <<cfgVars, csv_file, charges_file, lance_exists, dist_file,
                   meta_file, meta_n, main_pc, status, localVars, histVars,
                   rm_work_dir, work_dir, write_csv_worker, ingestVars,
                   earlierVars>>

\* A variant of MgfJoined that does not wait for the thread.
MgfJoinedAlways == TRUE

\* write_mgf_worker.join() returns once the thread has finished.
MgfJoined == write_mgf_worker = "finished"

JoinMgfWorker ==
    /\ main_pc = "join_mgf"
    /\ MgfJoined
    /\ main_pc' = "join_csv"
    /\ UNCHANGED <<cfgVars, fsVars, status, localVars, histVars, exportVars,
                   ingestVars, earlierVars>>

\* A variant of CsvJoined that does not wait for the thread.
CsvJoinedAlways == TRUE

\* write_csv_worker.join() returns once the thread has finished.
CsvJoined == write_csv_worker = "finished"

JoinCsvWorker ==
    /\ main_pc = "join_csv"
    /\ CsvJoined
    /\ main_pc' = "rm_work_dir"
    /\ UNCHANGED <<cfgVars, fsVars, status, localVars, histVars, exportVars,
                   ingestVars, earlierVars>>

\* if rm_work_dir: shutil.rmtree(config.work_dir)
RemoveWorkDir ==
    /\ main_pc = "rm_work_dir"
    /\ IF rm_work_dir
         THEN /\ work_dir' = FALSE
              /\ charges_file' = NoFile
              /\ lance_exists' = {}
              /\ dist_file' = [c \in Charges |-> "absent"]
              /\ meta_file' = [c \in Charges |-> "absent"]
         ELSE UNCHANGED <<work_dir, charges_file, lance_exists, dist_file,
                          meta_file>>
    /\ main_pc' = "return"
    /\ UNCHANGED <<cfgVars, csv_file, mgf_file, meta_n, status, localVars,
                   histVars, rm_work_dir, write_csv_worker, write_mgf_worker,
                   ingestVars, earlierVars>>

NextExport ==
    \/ StartCsvWorker
    \/ CsvWorkerWrites
    \/ StartMgfWorker
    \/ MgfWorkerWrites
    \/ JoinMgfWorker
    \/ JoinCsvWorker
    \/ RemoveWorkDir
    \/ Return0
    \/ Abort

SpecExport == InitExport /\ [][NextExport]_vars

\* ------------------------------------- the earlier pipeline, src/falcon.py
MzValues == {100, 200}

\* What reading config.filenames yields: up to MaxSpectra accepted spectra
\* of the configured charges, numbered in reading order. Each file is sorted
\* by precursor m/z, the files are not sorted against one another, so any
\* order occurs.
EarlierInputs ==
    UNION {{[i \in 1..n |-> [identifier |-> i,
                             precursor_mz |-> mz[i],
                             precursor_charge |-> ch[i]]] :
                <<mz, ch>> \in [1..n -> MzValues] \X [1..n -> Charges]} :
           n \in 0..MaxSpectra}

InitEarlier ==
    /\ overwrite = FALSE
    /\ export_representatives = FALSE
    /\ input_charges = {}
    /\ csv_file = FALSE
    /\ mgf_file = FALSE
    /\ charges_file = NoFile
    /\ lance_exists = {}
    /\ dist_file = [c \in Charges |-> "absent"]
    /\ meta_file = [c \in Charges |-> "absent"]
    /\ meta_n = [c \in Charges |-> 0]
    /\ main_pc = "idle"
    /\ status = "none"
    /\ FreshLocals
    /\ FreshHistory
    /\ ExportIdle
    /\ filenames \in EarlierInputs
    /\ spectra = [c \in Charges |-> <<>>]
    /\ identifiers = <<>>
    /\ row_ids = [c \in Charges |-> <<>>]
    /\ IngestIdle

\* The end of a run of the earlier main(): its locals are gone.
EarlierEndRun(result) ==
    /\ EndRun(result)
    /\ spectra' = [c \in Charges |-> <<>>]
    /\ identifiers' = <<>>

\* main() is entered and the peak files are read: spectra[charge] gets the
\* spectra of the charge in reading order, for every configured charge.
EarlierStart ==
    /\ main_pc = "idle"
    /\ status' = "running"
    /\ spectra' = [c \in Charges |->
                    SelectSeq(filenames, LAMBDA x : x.precursor_charge = c)]
    /\ charges' = Charges
    /\ todo' = Charges
    /\ main_pc' = "e_loop"
    /\ UNCHANGED <<cfgVars, fsVars, charge, metadata_len, current_label,
                   clusters_all, histVars, exportVars, filenames,
                   identifiers, row_ids, ingestVars>>

\* for charge, spectra_charge in spectra.items(): is dist_<charge>.npz there?
EarlierNextCharge ==
    /\ main_pc = "e_loop"
    /\ todo # {}
    /\ LET c == Min(todo) IN
        /\ charge' = c
        /\ main_pc' = IF dist_file[c] = "absent" THEN "e_compute" ELSE "e_load"
    /\ UNCHANGED <<cfgVars, fsVars, status, charges, todo, metadata_len,
                   current_label, clusters_all, histVars, exportVars,
                   earlierVars, ingestVars>>

\* The orders in which a sort by precursor m/z may leave the list.
SortingOrders(list) ==
    {p \in [DOMAIN list -> DOMAIN list] :
        /\ \A i \in DOMAIN list : \A j \in DOMAIN list :
                i # j => p[i] # p[j]
        /\ \A i \in DOMAIN list : \A j \in DOMAIN list :
                i < j => list[p[i]].precursor_mz <= list[p[j]].precursor_mz}

\* list.sort(key=...) is stable: equal keys keep their order.
StableOrder(list) ==
    CHOOSE p \in SortingOrders(list) :
        \A i \in DOMAIN list : \A j \in DOMAIN list :
            (i < j /\ list[p[i]].precursor_mz = list[p[j]].precursor_mz) =>
                p[i] < p[j]

\* [spec.identifier for spec in list], taken in order p.
IdentifiersIn(list, p) == [i \in DOMAIN list |-> list[p[i]].identifier]

\* The compute path: spectra_charge.sort(...), the matrix is computed on the
\* sorted list and saved, and identifiers follows the sorted list.
EarlierCompute ==
    /\ main_pc = "e_compute"
    /\ LET list == spectra[charge]
           p == StableOrder(list) IN
        /\ spectra' = [spectra EXCEPT ![charge] = [i \in DOMAIN list |->
                                                    list[p[i]]]]
        /\ identifiers' = IdentifiersIn(list, p)
        /\ row_ids' = [row_ids EXCEPT ![charge] = IdentifiersIn(list, p)]
    /\ dist_file' = [dist_file EXCEPT ![charge] = "complete"]
    /\ from_cache' = [from_cache EXCEPT ![charge] = "computed"]
    /\ main_pc' = "e_cluster"
    /\ UNCHANGED <<cfgVars, csv_file, mgf_file, charges_file, lance_exists,
                   meta_file, meta_n, status, localVars, blocked, did,
                   cache_seen, rewritten, exportVars, filenames, ingestVars>>

\* The cached path: the matrix is loaded and identifiers is reordered by
\* np.argsort(precursor_mzs), whose default kind is not stable: among equal
\* keys any order may come out.
EarlierLoad ==
    /\ main_pc = "e_load"
    /\ \E p \in SortingOrders(spectra[charge]) :
            identifiers' = IdentifiersIn(spectra[charge], p)
    /\ from_cache' = [from_cache EXCEPT ![charge] = "cache"]
    /\ main_pc' = "e_cluster"
    /\ UNCHANGED <<cfgVars, fsVars, status, localVars, blocked, did,
                   cache_seen, rewritten, exportVars, filenames, spectra,
                   row_ids, ingestVars>>

\* mask_no_noise = clusters != -1
MaskNoNoise(clusters) == {i \in DOMAIN clusters : clusters[i] # -1}

\* clusters[mask_no_noise] += current_label
OffsetNoNoise(raw, label) ==
    [i \in DOMAIN raw |->
        IF i \in MaskNoNoise(raw) THEN raw[i] + label ELSE raw[i]]

\* generate_clusters labels the rows (any labelling over -1..MaxLabel); the
\* non-noise labels are offset; np.amax of an empty selection raises, so a
\* bucket with no non-noise row ends main() with an exception.
EarlierCluster ==
    /\ main_pc = "e_cluster"
    /\ \E raw \in [DOMAIN spectra[charge] -> Labels] :
        IF MaskNoNoise(raw) = {}
          THEN /\ EarlierEndRun("exception")
               /\ UNCHANGED <<cfgVars, fsVars, exportVars, filenames,
                              row_ids, ingestVars>>
          ELSE LET clusters == OffsetNoNoise(raw, current_label) IN
               /\ current_label' =
                    Max({clusters[i] : i \in MaskNoNoise(clusters)}) + 1
               /\ clusters_all' = Append(clusters_all,
                                    [charge |-> charge, raw |-> raw,
                                     cluster |-> clusters])
               /\ todo' = todo \ {charge}
               /\ main_pc' = "e_loop"
               /\ UNCHANGED <<cfgVars, fsVars, status, charges, charge,
                              metadata_len, histVars, exportVars,
                              earlierVars, ingestVars>>

\* pd.concat(clusters_all).to_csv(...): clusters.csv is written, main() ends.
EarlierExport ==
    /\ main_pc = "e_loop"
    /\ todo = {}
    /\ csv_file' = TRUE
    /\ EarlierEndRun("0")
    /\ UNCHANGED <<cfgVars, mgf_file, charges_file, lance_exists, dist_file,
                   meta_file, meta_n, exportVars, filenames, row_ids,
                   ingestVars>>

\* The process is killed between two steps.
EarlierAbort ==
    /\ status = "running"
    /\ EarlierEndRun("killed")
    /\ UNCHANGED <<cfgVars, fsVars, exportVars, filenames, row_ids,
                   ingestVars>>

NextEarlier ==
    \/ EarlierStart
    \/ EarlierNextCharge
    \/ EarlierCompute
    \/ EarlierLoad
    \/ EarlierCluster
    \/ EarlierExport
    \/ EarlierAbort

SpecEarlier == InitEarlier /\ [][NextEarlier]_vars

\* ------------------------------------------------------------ properties
\* The rows of the cluster-assignment table built so far.
Rows ==
    UNION {{[charge |-> clusters_all[b].charge,
             raw |-> clusters_all[b].raw[i],
             cluster |-> clusters_all[b].cluster[i]] :
                i \in DOMAIN clusters_all[b].raw} : b \in DOMAIN clusters_all}

\* C1: no two rows of different charge buckets carry the same non-negative
\* cluster label in the cluster-assignment table, whatever labelling
\* generate_clusters returned for each bucket.
C1_LabelsNeverCollide ==
    \A r1 \in Rows, r2 \in Rows :
        (r1.charge # r2.charge /\ r1.cluster >= 0) => r1.cluster # r2.cluster

\* C2: a row that generate_clusters labelled -1 still has label -1 after the
\* cross-bucket offset step, for every value of the running offset.
C2_NoiseNeverOffset ==
    \A r \in Rows : r.raw = -1 => r.cluster = -1

\* C3: when an output file exists at the start of main() and overwrite is not
\* requested, no ingestion, graph, clustering or export stage is executed and
\* the step that follows the output check ends the run with status 1 (or the
\* process is killed first).
C3_AbortBeforeComputation ==
    /\ [](blocked => did = {})
    /\ [][blocked => status' \in {"1", "killed"}]_vars

\* C3 happens: main() has returned 1 because only the .mgf output existed.
C3_Witness == status = "1" /\ mgf_file /\ ~csv_file

\* Charge c has left the cache branch of the current run.
PastCache(c) ==
    /\ cache_seen[c] # "unchecked"
    /\ (charge = c => main_pc \in {"cluster", "loop", "write_csv",
                                   "write_mgf", "return"})

\* C4: a charge takes the load branch exactly when both its graph file and
\* its metadata file exist at the test; when one is missing the distances
\* are recomputed and both files have been rewritten, complete, once the
\* charge leaves the branch.
C4_CacheIffBothPresent ==
    \A c \in Charges :
        /\ cache_seen[c] = "both" =>
            /\ from_cache[c] # "computed"
            /\ rewritten[c] = {}
            /\ charge = c => main_pc # "compute"
            /\ PastCache(c) => from_cache[c] = "cache"
        /\ cache_seen[c] = "missing" =>
            /\ from_cache[c] # "cache"
            /\ charge = c => main_pc # "load"
            /\ PastCache(c) =>
                /\ from_cache[c] = "computed"
                /\ rewritten[c] = {"dist", "meta"}
                /\ dist_file[c] = "complete"
                /\ meta_file[c] = "complete"

\* C4 happens: in one run a charge was loaded from its cache and another,
\* whose metadata file alone was missing, was recomputed and rewritten.
C4_Witness ==
    \E c \in Charges, d \in Charges :
        /\ from_cache[c] = "cache"
        /\ from_cache[d] = "computed"
        /\ rewritten[d] = {"dist", "meta"}
        /\ PastCache(d)

\* C5: after the process is killed at any step, a charge whose graph file and
\* metadata file both exist has both files complete, and a run never reaches
\* the load branch with an incomplete file.
C5_CachePersistedAtomically ==
    /\ status = "killed" =>
        \A c \in Charges :
            BothCached(c) =>
                dist_file[c] = "complete" /\ meta_file[c] = "complete"
    /\ main_pc = "load" =>
        dist_file[charge] = "complete" /\ meta_file[charge] = "complete"

\* How often spectrum s occurs among the rows of a dataset.
Occurrences(s, rows) == Cardinality({i \in DOMAIN rows : rows[i] = s})

\* C6: once all writers have exited, every accepted spectrum is a row of the
\* dataset of its precursor charge exactly once, and a writer that has exited
\* holds no staged spectrum.
C6_WrittenExactlyOnce ==
    /\ \A w \in Writers :
        w_pc[w] = "exited" => \A c \in Charges : spec_to_write[w][c] = <<>>
    /\ prep_pc = "done" =>
        \A s \in accepted :
            Occurrences(s, ds_rows[s.precursor_charge]) = 1

\* C7: the dataset of a charge is created (written in overwrite mode) at most
\* once, and never after rows have been appended to it.
C7_CreatedAtMostOnce ==
    \A c \in Charges : creates[c] <= 1 /\ ~late_create[c]

\* Writer w is inside the create-or-append section of _write_to_dataset.
InSection(w) == w_pc[w] \in {"exists", "create", "append"}

\* C8: no two writers are inside the create-or-append section for the same
\* charge at the same time, and writers of different charges hold different
\* locks.
C8_SameChargeWritersExclude ==
    \A w1 \in Writers, w2 \in Writers :
        (w1 # w2 /\ InSection(w1) /\ InSection(w2)) =>
            /\ w_charge[w1] # w_charge[w2]
            /\ w_lock[w1] # w_lock[w2]

\* C9: the queue never holds more than max_spectra_in_memory entries.
C9_QueueBounded == Len(spectra_queue) <= max_spectra_in_memory

\* C9 happens: the queue is full while the reader side has a spectrum, or a
\* sentinel, left to put.
C9_Witness ==
    /\ Len(spectra_queue) = max_spectra_in_memory
    /\ \/ file_spectra # <<>>
       \/ sentinels_left > 0

\* C10: every row of the dataset of charge c has precursor charge c.
C10_RowsHaveDatasetCharge ==
    \A c \in Charges :
        \A i \in DOMAIN ds_rows[c] : ds_rows[c][i].precursor_charge = c

\* C10 happens: all writers have exited and the datasets of two charges hold
\* rows, one of them a batch flushed at the threshold.
C10_Witness ==
    /\ prep_pc = "done"
    /\ \E c \in Charges, d \in Charges :
        /\ c # d
        /\ Len(ds_rows[c]) >= FlushThreshold
        /\ ds_rows[d] # <<>>

\* C11: when _prepare_spectra finishes, the spectra the reader yielded over
\* all input files are as many as the rows counted in the charge datasets
\* plus the reported low-quality counter.
C11_NoSpectrumLostSilently ==
    prep_pc = "done" => yielded = n_spectra + low_quality_counter

\* C12: a peak file that cannot be read does not end _prepare_spectra with
\* an exception: the file is skipped and ingestion goes on.
C12_UnreadableFileSkipped == prep_pc # "raised"

\* Where no dataset is created a second time, the counts do agree.
CountsAgreeWithoutSecondCreation ==
    (prep_pc = "done" /\ \A c \in Charges : creates[c] <= 1) =>
        yielded = n_spectra + low_quality_counter

\* C13: a bucket with zero rows adds nothing to the table and leaves the
\* running label as it is, and the export that follows the loop does not
\* raise, also when every bucket had zero rows.
C13_EmptyBucketsNotFatal ==
    /\ [][(main_pc = "cluster" /\ metadata_len = 0 /\ status' = "running") =>
            (clusters_all' = clusters_all /\ current_label' = current_label)]_vars
    /\ [][(main_pc = "loop" /\ todo = {} /\ charges # {}) =>
            status' # "exception"]_vars

\* C14 (as stated): a run without overwrite that follows a completed run on
\* the same working directory and output name is not stopped at the output
\* check, so that it can produce its own cluster-assignment table.
C14_RerunProducesTable ==
    [][(status = "0" /\ main_pc' = "check_outputs" /\ ~overwrite') =>
            ~blocked']_vars

\* C14 (amended): a completed run leaves its table behind, so a following run
\* without overwrite on the same output name is stopped at the output check
\* and writes no table; a run without overwrite that gets past the check
\* and finds a stored charge list reuses it and ingests nothing.
C14_RerunStopsAtExistingTable ==
    /\ [](status = "0" => csv_file)
    /\ [][(status = "0" /\ main_pc' = "check_outputs" /\ ~overwrite') =>
            blocked']_vars
    /\ [](blocked => main_pc = "check_outputs")
    /\ [][(main_pc = "charges" /\ charges_file # NoFile /\ ~overwrite) =>
            \/ status' = "killed"
            \/ (charges' = charges_file[1] /\ did' = did)]_vars

\* The second run has ended with status 1 on the results of a completed one.
C14_Witness ==
    /\ status = "1"
    /\ csv_file
    /\ charges_file # NoFile
    /\ charges_file[1] # {}
    /\ \A c \in charges_file[1] :
            dist_file[c] = "complete" /\ meta_file[c] = "complete"

\* C15: with overwrite, the cleaning step that precedes ingestion leaves no
\* result of an earlier run: the output files, every per-charge dataset, the
\* stored charge list and every graph and metadata cache are gone, and the
\* run goes on to ingest (unless the process is killed).
C15_OverwriteRemovesEarlierResults ==
    [][(main_pc = "clean" /\ overwrite) =>
            \/ status' = "killed"
            \/ /\ main_pc' = "charges"
               /\ ~csv_file' /\ ~mgf_file'
               /\ charges_file' = NoFile
               /\ lance_exists' = {}
               /\ \A c \in Charges :
                    dist_file'[c] = "absent" /\ meta_file'[c] = "absent"]_vars

\* The identifiers the clustering of charge c gets to label: the rows of the
\* dataset of c.
StoredIds(c) == {ds_rows[c][i].id : i \in DOMAIN ds_rows[c]}

\* The identifiers the input fixes for charge c, whatever the interleaving.
InputIds(c) == {s.id : s \in {a \in accepted : a.precursor_charge = c}}

\* C16: the cluster assignment does not depend on how the writers
\* interleave: an interleaving in which one writer takes every spectrum
\* stores all of them, so in every interleaving the identifiers that reach
\* the clustering of a charge, and the charges that are clustered, are the
\* ones the input fixes.
C16_AssignmentIndependentOfInterleaving ==
    prep_pc = "done" =>
        /\ \A c \in Charges : StoredIds(c) = InputIds(c)
        /\ prep_charges = {c \in Charges : InputIds(c) # {}}

\* Where no dataset is created a second time, the stored identifiers are
\* the ones the input fixes.
StoredIdsFixedWithoutSecondCreation ==
    (prep_pc = "done" /\ \A c \in Charges : creates[c] <= 1) =>
        \A c \in Charges : StoredIds(c) = InputIds(c)

\* C17: _prepare_spectra never comes to a stop before its end: as long as it
\* has neither returned nor raised, the reader side or a writer has a step
\* to take; in particular a put on the full queue has a consumer to wait for.
C17_PrepareNeverStuck ==
    prep_pc \in {"done", "raised"} \/ ENABLED NextIngest

\* With no more accepted spectra than the queue holds, it never is stuck.
NeverStuckWithinCapacity ==
    Cardinality(accepted) <= max_spectra_in_memory => C17_PrepareNeverStuck

\* Every spectrum and every sentinel has been put on the queue.
AllQueued == prep_pc = "sentinels" /\ sentinels_left = 0

\* C18: once all spectra and the sentinels are on the queue every started
\* writer eventually exits; a writer takes one sentinel and no more, a
\* sentinel is taken only when nothing but sentinels is left on the queue,
\* and the queue is empty once the pool has been joined.
C18_WritersExitOnSentinels ==
    /\ AllQueued ~> (\A w \in Writers :
                        w <= max_file_workers => w_pc[w] = "exited")
    /\ [](\A w \in Writers :
            /\ w_sentinels[w] <= 1
            /\ w_pc[w] \in {"unborn", "get"} => w_sentinels[w] = 0
            /\ w_pc[w] \in {"drain", "exited"} => w_sentinels[w] = 1)
    /\ [][\A w \in Writers :
            w_sentinels'[w] # w_sentinels[w] =>
                \A i \in DOMAIN spectra_queue' : spectra_queue'[i] = None]_vars
    /\ [](prep_pc \in {"count", "done"} => spectra_queue = <<>>)

\* C18 happens: spectra went through the queue and every one of the
\* MaxWriters writers has exited on its own sentinel, leaving the queue empty.
C18_Witness ==
    /\ prep_pc = "sentinels"
    /\ max_file_workers = MaxWriters
    /\ accepted # {}
    /\ spectra_queue = <<>>
    /\ \A w \in Writers : w_pc[w] = "exited" /\ w_sentinels[w] = 1

\* C19: whenever a writer is about to read the next queue entry, each of its
\* staging batches holds fewer spectra than the flush threshold.
C19_BatchBelowThresholdAtGet ==
    \A w \in Writers :
        w_pc[w] = "get" =>
            \A c \in Charges : Len(spec_to_write[w][c]) < FlushThreshold

\* C19 happens: a writer is back at the queue after a flush at the
\* threshold, with a spectrum of another charge still staged.
C19_Witness ==
    \E w \in Writers, c \in Charges, d \in Charges :
        /\ w_pc[w] = "get"
        /\ Len(ds_rows[c]) >= FlushThreshold
        /\ spec_to_write[w][c] = <<>>
        /\ spec_to_write[w][d] # <<>>

\* C20: a run that ends with status 1 has changed no file: entering main()
\* touches none, and the output check that returns 1 leaves the output
\* files, the datasets, the stored charge list and the caches as they were.
C20_AbortLeavesFilesUnchanged ==
    /\ [][main_pc = "idle" => UNCHANGED fsVars]_vars
    /\ [][status' = "1" => (main_pc = "check_outputs" /\ UNCHANGED fsVars)]_vars

\* C20 happens: a run has returned 1 on a working directory that holds an
\* output file, a dataset, the stored charge list and both caches of a
\* charge.
C20_Witness ==
    /\ status = "1"
    /\ csv_file \/ mgf_file
    /\ lance_exists # {}
    /\ charges_file # NoFile
    /\ \E c \in Charges : dist_file[c] # "absent" /\ meta_file[c] # "absent"

\* C21: when the run that follows a kill during ingestion has finished its
\* own ingestion, every accepted spectrum is a row of the dataset of its
\* charge exactly once.
C21_RerunStoresEachSpectrumOnce ==
    (status = "killed" /\ prep_pc = "done") =>
        \A s \in accepted :
            Occurrences(s, ds_rows[s.precursor_charge]) = 1

\* Both writer threads the run started have finished and their files exist.
WritersFinished ==
    /\ write_csv_worker = "finished" /\ csv_file
    /\ export_representatives => (write_mgf_worker = "finished" /\ mgf_file)

\* C22: main() returns 0 only when the cluster-assignment writer thread, and
\* with representative export the representative writer thread, have
\* finished; the working directory is removed only if it is a temporary
\* one, and only when both have finished.
C22_ReturnAfterWritersFinished ==
    /\ [][status' = "0" => WritersFinished]_vars
    /\ [][(work_dir /\ ~work_dir') => (rm_work_dir /\ WritersFinished)]_vars

\* C22 happens: a run with representative export on a temporary working
\* directory has returned 0, the directory removed and both files written.
C22_Witness ==
    /\ status = "0"
    /\ export_representatives
    /\ rm_work_dir
    /\ ~work_dir
    /\ csv_file /\ mgf_file

\* C23: in the earlier pipeline the loop body completes for every
\* configured charge (the step after generate_clusters never ends the run
\* with an exception), noise rows keep -1 and no non-negative label occurs
\* in the tables of two charges.
C23_EarlierLoopCompletes ==
    /\ [][main_pc = "e_cluster" => status' # "exception"]_vars
    /\ [](\A k \in DOMAIN clusters_all :
            \A i \in DOMAIN clusters_all[k].raw :
                clusters_all[k].raw[i] = -1 <=> clusters_all[k].cluster[i] = -1)
    /\ [](\A k \in DOMAIN clusters_all, l \in DOMAIN clusters_all :
            k # l =>
                \A i \in DOMAIN clusters_all[k].cluster :
                    \A j \in DOMAIN clusters_all[l].cluster :
                        clusters_all[k].cluster[i] >= 0 =>
                            clusters_all[k].cluster[i] #
                                clusters_all[l].cluster[j])

\* Where the loop goes on, noise keeps -1 and the labels of different
\* charges do not coincide.
EarlierLabelsDisjoint ==
    \A k \in DOMAIN clusters_all, l \in DOMAIN clusters_all :
        k # l =>
            \A i \in DOMAIN clusters_all[k].cluster :
                \A j \in DOMAIN clusters_all[l].cluster :
                    clusters_all[k].cluster[i] >= 0 =>
                        clusters_all[k].cluster[i] # clusters_all[l].cluster[j]

\* C24: whenever generate_clusters is about to run, on the cached path as
\* on the compute path, identifiers is the identifier sequence the matrix
\* in dist_<charge>.npz was computed on.
C24_CachedIdentifiersMatchRows ==
    main_pc = "e_cluster" => identifiers = row_ids[charge]

\* Where no two spectra of the charge share a precursor m/z they do match.
IdentifiersMatchWithoutTies ==
    (/\ main_pc = "e_cluster"
     /\ \A i \in DOMAIN spectra[charge] : \A j \in DOMAIN spectra[charge] :
            i # j => spectra[charge][i].precursor_mz #
                        spectra[charge][j].precursor_mz) =>
        identifiers = row_ids[charge]
====
